---- MODULE Spec2Model ----
(***************************************************************************)
(* Model of poolfactory: the single-threaded Pool<T>, the ThreadSafePool<T> *)
(* that overrides acquire/do_release/stats with a mutex and a condition     *)
(* variable, the RAII handle PooledResource<T>, and PoolFactory's          *)
(* validate_config + construction path.                                     *)
(*                                                                          *)
(* Resources are numbered in creation order (1, 2, ...).  The user-supplied *)
(* creator, validator and resetter are free: every call draws its outcome   *)
(* with \E.  Time is a discrete steady clock `now`.                         *)
(***************************************************************************)
EXTENDS Integers, Sequences, FiniteSets, TLC

\* ---------------------------------------------------------------- bounds
\* largest min_size / max_size a configuration is drawn from
MaxSize == 2
\* the creator succeeds at most this many times (then it keeps failing)
MaxCreate == 3
\* the steady clock runs from 0 to MaxTime
MaxTime == 2

Callers == {"t1", "t2"}
MainThread == "t1"
Timeouts == {0, 1}
\* the max_size values the thread-safe pool is built with
TSSizes == {1, 2}

NoThread == "none"

VARIABLES
    phase,      \* "unbuilt" | "ready" | "config_error"   (PoolFactory::create*)
    kind,       \* "Pool" | "ThreadSafePool"
    config,     \* PoolConfig handed to the factory
    callbacks,  \* which of validator / resetter the caller supplied
    pool,       \* [available_, in_use_, total_created_]
    mutex_,     \* owner of ThreadSafePool::mutex_, or NoThread
    pc,         \* per thread: where it is inside acquire / do_release
    deadline,   \* per thread: the deadline of its acquire in progress
    rel,        \* per thread: the handle operation whose release is running
    hist,       \* per thread: what its acquire in progress has been through
    handles,    \* the PooledResource objects that exist
    now,        \* std::chrono::steady_clock::now()
    created,    \* number of creator invocations that returned ok
    relcount,   \* per resource: acquires minus release callbacks
    bracket,    \* per thread: its with_resource call in progress
    last        \* the operation the latest step performed

vars == <<phase, kind, config, callbacks, pool, mutex_, pc, deadline, rel,
          hist, handles, now, created, relcount, bracket, last>>

\* the threads that use the pool
Threads == DOMAIN pc
\* the resources the creator can make
Resources == DOMAIN relcount
\* the places a handle can live in: local variables of the callers
Handles == DOMAIN handles

\* ------------------------------------------------------------ PoolConfig
PoolConfig ==
    [min_size : 0..MaxSize, max_size : 0..MaxSize, acquire_timeout : Timeouts,
     validate_on_acquire : BOOLEAN, validate_on_release : BOOLEAN]

\* validate_config without the min_size check
validate_config_nomin(c) ==
    IF c.max_size = 0 THEN "max_size cannot be 0" ELSE "ok"

\* validate_config without the max_size check
validate_config_nozero(c) ==
    IF c.min_size > c.max_size THEN "min_size cannot exceed max_size" ELSE "ok"

\* PoolFactory::validate_config
validate_config(c) ==
    IF c.max_size = 0 THEN "max_size cannot be 0"
    ELSE IF c.min_size > c.max_size THEN "min_size cannot exceed max_size"
    ELSE "ok"

\* --------------------------------------------------------- PooledResource
NoHandle == [live |-> FALSE, engaged |-> FALSE, rid |-> 0, releaser |-> FALSE]

\* PooledResource(T resource, Releaser releaser)
NewHandle(r) == [live |-> TRUE, engaged |-> TRUE, rid |-> r, releaser |-> TRUE]

\* has_value()
has_value(h) == h.engaged

\* the condition of release(): resource_ && releaser_
Armed(h) == h.live /\ h.engaged /\ h.releaser

\* release() after the releaser has returned: resource_.reset(); releaser_ = nullptr
Released(h) == [h EXCEPT !.engaged = FALSE, !.rid = 0, !.releaser = FALSE]

\* move constructor, destination: takes resource_ and releaser_
MovedTo(src) ==
    [live |-> TRUE, engaged |-> src.engaged, rid |-> src.rid,
     releaser |-> src.releaser]

\* a move constructor that leaves the source's releaser_ in place
MovedFrom_keep(src) == [src EXCEPT !.rid = 0]

\* move constructor, source: std::optional stays engaged when it was, now
\* holding a moved-from T (resource 0); other.releaser_ = nullptr
MovedFrom(src) == [src EXCEPT !.rid = 0, !.releaser = FALSE]

\* a wrap_resource whose temporary keeps its releaser_ when it is moved
\* into the Result
wrap_resource_armed(r) ==
    [handle |-> MovedTo(NewHandle(r)), husk |-> MovedFrom_keep(NewHandle(r))]

\* the temporary built by wrap_resource and moved into the Result: the
\* Result holds the destination, the moved-from temporary is destroyed
wrap_resource(r) ==
    [handle |-> MovedTo(NewHandle(r)), husk |-> MovedFrom(NewHandle(r))]

\* ------------------------------------------------------------------ Pool
PoolData(av, iu, tc) == [available_ |-> av, in_use_ |-> iu, total_created_ |-> tc]

\* outcome of acquire: the pool afterwards, the Result (res, rid), the number
\* of creator invocations made and whether one returned ok, and whether the
\* validator rejected the popped resource
Outcome(p, res, rid, calls, made, rejected) ==
    [pool |-> p, res |-> res, rid |-> rid, calls |-> calls, made |-> made,
     rejected |-> rejected]

\* create_and_wrap counting the checkout before the creator has succeeded
create_and_wrap_early(p, cok, r, rejected) ==
    IF ~cok
    THEN Outcome([p EXCEPT !.in_use_ = @ + 1], "creator_error", 0, 1, FALSE,
                 rejected)
    ELSE Outcome([p EXCEPT !.total_created_ = @ + 1, !.in_use_ = @ + 1],
                 "ok", r, 1, TRUE, rejected)

\* create_and_wrap that forgets ++total_created_
create_and_wrap_nocount(p, cok, r, rejected) ==
    IF ~cok
    THEN Outcome(p, "creator_error", 0, 1, FALSE, rejected)
    ELSE Outcome([p EXCEPT !.in_use_ = @ + 1], "ok", r, 1, TRUE, rejected)

\* create_and_wrap that counts the creation before looking at the Result
create_and_wrap_countfail(p, cok, r, rejected) ==
    IF ~cok
    THEN Outcome([p EXCEPT !.total_created_ = @ + 1], "creator_error", 0, 1,
                 FALSE, rejected)
    ELSE Outcome([p EXCEPT !.total_created_ = @ + 1, !.in_use_ = @ + 1],
                 "ok", r, 1, TRUE, rejected)

\* create_and_wrap that calls the creator once more after a failure
create_and_wrap_retry(p, cok, r, rejected) ==
    IF ~cok
    THEN Outcome(p, "creator_error", 0, 2, FALSE, rejected)
    ELSE Outcome([p EXCEPT !.total_created_ = @ + 1, !.in_use_ = @ + 1],
                 "ok", r, 1, TRUE, rejected)

\* Pool::create_and_wrap / ThreadSafePool::create_and_wrap_locked:
\* cok is what factory_() returned, r the resource it made
create_and_wrap(p, cok, r, rejected) ==
    IF ~cok
    THEN Outcome(p, "creator_error", 0, 1, FALSE, rejected)
    ELSE Outcome([p EXCEPT !.total_created_ = @ + 1, !.in_use_ = @ + 1],
                 "ok", r, 1, TRUE, rejected)

\* an acquire that takes the resource returned last
take_available_lifo(p, c, cb, vok, cok, r) ==
    LET resource == p.available_[Len(p.available_)]
        q == [p EXCEPT !.available_ = SubSeq(@, 1, Len(@) - 1)]
    IN IF c.validate_on_acquire /\ cb.validator /\ ~vok
       THEN create_and_wrap(q, cok, r, TRUE)
       ELSE Outcome([q EXCEPT !.in_use_ = @ + 1], "ok", resource, 0, FALSE, FALSE)

\* an acquire that reports the validator's rejection to the caller
take_available_surface(p, c, cb, vok, cok, r) ==
    LET resource == Head(p.available_)
        q == [p EXCEPT !.available_ = Tail(@)]
    IN IF c.validate_on_acquire /\ cb.validator /\ ~vok
       THEN Outcome(q, "validation_failed", 0, 0, FALSE, TRUE)
       ELSE Outcome([q EXCEPT !.in_use_ = @ + 1], "ok", resource, 0, FALSE, FALSE)

\* an acquire that puts a rejected resource back behind the idle ones
take_available_requeue(p, c, cb, vok, cok, r) ==
    LET resource == Head(p.available_)
        q == [p EXCEPT !.available_ = Tail(@)]
    IN IF c.validate_on_acquire /\ cb.validator /\ ~vok
       THEN create_and_wrap([q EXCEPT !.available_ = Append(@, resource)],
                            cok, r, TRUE)
       ELSE Outcome([q EXCEPT !.in_use_ = @ + 1], "ok", resource, 0, FALSE, FALSE)

\* lines 55-67 and 213-226: pop the front of available_, validate, wrap
take_available(p, c, cb, vok, cok, r) ==
    LET resource == Head(p.available_)
        q == [p EXCEPT !.available_ = Tail(@)]
    IN IF c.validate_on_acquire /\ cb.validator /\ ~vok
       THEN create_and_wrap(q, cok, r, TRUE)
       ELSE Outcome([q EXCEPT !.in_use_ = @ + 1], "ok", resource, 0, FALSE, FALSE)

\* Pool::acquire with the capacity test written in_use_ > max_size
Pool_acquire_offbyone(p, c, cb, vok, cok, r) ==
    IF p.available_ # <<>>
    THEN take_available(p, c, cb, vok, cok, r)
    ELSE IF p.in_use_ > c.max_size
         THEN Outcome(p, "exhausted", 0, 0, FALSE, FALSE)
         ELSE create_and_wrap(p, cok, r, FALSE)

\* Pool::acquire that creates without looking at in_use_
Pool_acquire_nolimit(p, c, cb, vok, cok, r) ==
    IF p.available_ # <<>>
    THEN take_available(p, c, cb, vok, cok, r)
    ELSE create_and_wrap(p, cok, r, FALSE)

\* Pool::acquire
Pool_acquire(p, c, cb, vok, cok, r) ==
    IF p.available_ # <<>>
    THEN take_available(p, c, cb, vok, cok, r)
    ELSE IF p.in_use_ >= c.max_size
         THEN Outcome(p, "exhausted", 0, 0, FALSE, FALSE)
         ELSE create_and_wrap(p, cok, r, FALSE)

\* the wait condition written in_use_ > max_size
MustWait_strict(p, c) == p.available_ = <<>> /\ p.in_use_ > c.max_size

\* ThreadSafePool::acquire, the condition of its wait loop
MustWait(p, c) == p.available_ = <<>> /\ p.in_use_ >= c.max_size

\* ThreadSafePool::acquire after the wait loop
TS_acquire_locked(p, c, cb, vok, cok, r) ==
    IF p.available_ # <<>>
    THEN take_available(p, c, cb, vok, cok, r)
    ELSE create_and_wrap(p, cok, r, FALSE)

\* do_release that ignores what resetter_ returned
Pool_do_release_noreset(p, c, cb, r, rok, vok) ==
    LET q == [p EXCEPT !.in_use_ = @ - 1]
    IN IF c.validate_on_release /\ cb.validator /\ ~vok
       THEN [pool |-> q, res |-> "invalid"]
       ELSE [pool |-> [q EXCEPT !.available_ = Append(@, r)],
             res |-> "returned"]

\* do_release without --in_use_
Pool_do_release_nodec(p, c, cb, r, rok, vok) ==
    IF cb.resetter /\ ~rok
    THEN [pool |-> p, res |-> "reset_failed"]
    ELSE IF c.validate_on_release /\ cb.validator /\ ~vok
         THEN [pool |-> p, res |-> "invalid"]
         ELSE [pool |-> [p EXCEPT !.available_ = Append(@, r)],
               res |-> "returned"]

\* do_release that discards when validate_on_release is on and the caller
\* supplied no validator
Pool_do_release_strict(p, c, cb, r, rok, vok) ==
    LET q == [p EXCEPT !.in_use_ = @ - 1]
    IN IF cb.resetter /\ ~rok
       THEN [pool |-> q, res |-> "reset_failed"]
       ELSE IF c.validate_on_release /\ ~(cb.validator /\ vok)
            THEN [pool |-> q, res |-> "invalid"]
            ELSE [pool |-> [q EXCEPT !.available_ = Append(@, r)],
                  res |-> "returned"]

\* Pool::do_release: rok is what resetter_ returned, vok what validator_ did
Pool_do_release(p, c, cb, r, rok, vok) ==
    LET q == [p EXCEPT !.in_use_ = @ - 1]
    IN IF cb.resetter /\ ~rok
       THEN [pool |-> q, res |-> "reset_failed"]
       ELSE IF c.validate_on_release /\ cb.validator /\ ~vok
            THEN [pool |-> q, res |-> "invalid"]
            ELSE [pool |-> [q EXCEPT !.available_ = Append(@, r)],
                  res |-> "returned"]

\* Pool::Pool, the pre-warm loop: f[i] is what the i-th factory_() returned
\* a pre-warm loop that gives up at the first creator failure
RECURSIVE PreWarm_stop(_, _, _, _)
PreWarm_stop(p, i, n, f) ==
    IF i > n \/ ~f[i] THEN p
    ELSE PreWarm_stop([p EXCEPT !.available_ =
                                   Append(@, Cardinality({j \in 1..i : f[j]})),
                                !.total_created_ = @ + 1], i + 1, n, f)

RECURSIVE PreWarm(_, _, _, _)
PreWarm(p, i, n, f) ==
    IF i > n THEN p
    ELSE IF f[i]
         THEN PreWarm([p EXCEPT !.available_ =
                                   Append(@, Cardinality({j \in 1..i : f[j]})),
                                !.total_created_ = @ + 1], i + 1, n, f)
         ELSE PreWarm(p, i + 1, n, f)

\* Pool::stats
stats == [available |-> Len(pool.available_), in_use |-> pool.in_use_,
          total_created |-> pool.total_created_, max_size |-> config.max_size]

\* ------------------------------------------------------------------ state
NoRel == [h |-> 0, op |-> "none", src |-> 0]

\* what a step did: the operation, its result, the resource concerned, the
\* number of creator invocations, whether the validator rejected the popped
\* resource, what the resetter and the validator returned on release, and
\* what the acquire had been through when it returned
Event(op, res, rid, calls) ==
    [op |-> op, res |-> res, rid |-> rid, calls |-> calls, rejected |-> FALSE,
     rok |-> TRUE, vok |-> TRUE, hist |-> "none"]
AcquireEvent(a, hi) ==
    [Event("acquire", a.res, a.rid, a.calls) EXCEPT !.rejected = a.rejected,
                                                    !.hist = hi]
ReleaseEvent(d, r, rok, vok) ==
    [Event("release", d.res, r, 0) EXCEPT !.rok = rok, !.vok = vok]

\* the outcomes a callback can have: where the caller supplied none, the
\* entry point passes a validator that returns true and a resetter that
\* returns ok (pool_factory.hpp line 40-41, 57, 99-100, 117)
Outcomes(isSet) == IF isSet THEN BOOLEAN ELSE {TRUE}

\* The configurations the pools are built from.  The single-threaded pool
\* never reads acquire_timeout.  The thread-safe pool runs the same checkout
\* and release logic; it is built with full validation (every callback set,
\* both flags on) or with none.
Modelled(k, c, cb) ==
    /\ k = "Pool" => c.acquire_timeout = 0
    /\ (k = "ThreadSafePool" /\ validate_config(c) = "ok") =>
         /\ c.max_size \in TSSizes
         /\ cb.validator = cb.resetter
         /\ c.validate_on_acquire = cb.validator
         /\ c.validate_on_release = cb.validator

\* no with_resource call in progress
NoBracket ==
    [st |-> "none", h |-> 0, rid |-> 0, husk |-> NoHandle, res |-> "none",
     before |-> 0, rels |-> 0, done |-> FALSE]

\* before construction, with threads T and room for n resources
InitWith(T, n) ==
    /\ phase = "unbuilt"
    /\ pool = PoolData(<<>>, 0, 0)
    /\ mutex_ = NoThread
    /\ pc = [t \in T |-> "idle"]
    /\ deadline = [t \in T |-> 0]
    /\ rel = [t \in T |-> NoRel]
    /\ hist = [t \in T |-> "none"]
    /\ handles = [h \in 1..n |-> NoHandle]
    /\ now = 0
    /\ created = 0
    /\ relcount = [r \in 1..n |-> 0]
    /\ bracket = [t \in T |-> NoBracket]
    /\ last = Event("init", "none", 0, 0)

InitRest == InitWith(Callers, MaxCreate)

Init ==
    /\ kind \in {"Pool", "ThreadSafePool"}
    /\ config \in PoolConfig
    /\ callbacks \in [validator : BOOLEAN, resetter : BOOLEAN]
    /\ Modelled(kind, config, callbacks)
    /\ InitRest

\* ------------------------------------------------------------ construction
\* PoolFactory::create_with_lifecycle / create_thread_safe_with_lifecycle:
\* validate_config, then the Pool constructor with its pre-warm loop
Create ==
    /\ phase = "unbuilt"
    /\ IF validate_config(config) # "ok"
       THEN /\ phase' = "config_error"
            /\ last' = Event("create", validate_config(config), 0, 0)
            /\ UNCHANGED <<pool, created>>
       ELSE \E f \in [1..config.min_size -> BOOLEAN] :
            /\ phase' = "ready"
            /\ pool' = PreWarm(pool, 1, config.min_size, f)
            /\ created' = Cardinality({i \in 1..config.min_size : f[i]})
            /\ last' = Event("create", "ok", 0, config.min_size)
    /\ UNCHANGED <<kind, config, callbacks, mutex_, pc, deadline, rel, hist, handles,
                   now, relcount>>

\* ---------------------------------------------------------------- helpers
FreeSlots == {h \in Handles : ~handles[h].live}

\* where the caller keeps a new handle: slot r for resource r when it is
\* free, else the first free slot
SlotFor(r) ==
    IF r \in FreeSlots THEN r
    ELSE CHOOSE h \in FreeSlots : \A g \in FreeSlots : h <= g

\* a handle some thread is in the middle of releasing or assigning from
Busy(h) ==
    \E t \in Threads : rel[t].h = h \/ rel[t].src = h \/ bracket[t].h = h

CanAct(t) ==
    /\ phase = "ready"
    /\ pc[t] = "idle"
    /\ bracket[t].st = "none"
    /\ kind = "Pool" => t = MainThread

Bump(cnt, r, d) == IF r \in Resources THEN [cnt EXCEPT ![r] = @ + d] ELSE cnt

\* a move assignment that leaves the source as it was
Assigned_keep(hs, dst, src) ==
    [hs EXCEPT ![dst] = [live |-> TRUE, engaged |-> hs[src].engaged,
                         rid |-> hs[src].rid, releaser |-> hs[src].releaser]]

\* move assignment once release() of the destination has returned
Assigned(hs, dst, src) ==
    [hs EXCEPT ![dst] = [live |-> TRUE, engaged |-> hs[src].engaged,
                         rid |-> hs[src].rid, releaser |-> hs[src].releaser],
               ![src] = MovedFrom(hs[src])]

\* the caller receives the Result of a successful acquire: the handle that
\* wrap_resource moved into it
Receive(hs, r) == [hs EXCEPT ![SlotFor(r)] = wrap_resource(r).handle]

\* the moved-from temporary of wrap_resource is destroyed before acquire
\* returns: ~PooledResource runs release() on it, inside acquire
HuskReleases(r) == Armed(wrap_resource(r).husk)
AfterHusk(p, r) ==
    IF HuskReleases(r)
    THEN Pool_do_release(p, config, callbacks, r, TRUE, TRUE).pool
    ELSE p

\* ------------------------------------------------- single-threaded acquire
\* Pool::acquire on the single-threaded pool, and the Result it returns
Acquire(t) ==
    /\ CanAct(t) /\ kind = "Pool"
    /\ \E vok \in Outcomes(callbacks.validator), cok \in BOOLEAN :
       /\ cok => created + 1 \in Resources
       /\ LET a == Pool_acquire(pool, config, callbacks, vok, cok, created + 1)
          IN /\ a.res = "ok" => FreeSlots # {}
             /\ created' = IF a.made THEN created + 1 ELSE created
             /\ IF a.res = "ok"
                THEN /\ pool' = AfterHusk(a.pool, a.rid)
                     /\ handles' = Receive(handles, a.rid)
                     /\ relcount' = Bump(relcount, a.rid,
                                         IF HuskReleases(a.rid) THEN 0 ELSE 1)
                ELSE /\ pool' = a.pool
                     /\ UNCHANGED <<handles, relcount>>
             /\ last' = AcquireEvent(a, "none")
    /\ UNCHANGED <<phase, kind, config, callbacks, mutex_, pc, deadline, rel,
                   hist, now>>

\* ---------------------------------------------------- thread-safe acquire
\* an acquire that does not wait for the mutex
TS_AcquireLock_nolock(t) ==
    /\ CanAct(t) /\ kind = "ThreadSafePool"
    /\ mutex_' = t
    /\ deadline' = [deadline EXCEPT ![t] = now + config.acquire_timeout]
    /\ pc' = [pc EXCEPT ![t] = "acq_loop"]
    /\ last' = Event("step", "none", 0, 0)
    /\ UNCHANGED <<phase, kind, config, callbacks, pool, rel, hist, handles, now,
                   created, relcount>>

\* line 201-203: std::unique_lock lock(mutex_); deadline = now + timeout
TS_AcquireLock(t) ==
    /\ CanAct(t) /\ kind = "ThreadSafePool"
    /\ mutex_ = NoThread
    /\ mutex_' = t
    /\ deadline' = [deadline EXCEPT ![t] = now + config.acquire_timeout]
    /\ pc' = [pc EXCEPT ![t] = "acq_loop"]
    /\ last' = Event("step", "none", 0, 0)
    /\ UNCHANGED <<phase, kind, config, callbacks, pool, rel, hist, handles, now,
                   created, relcount>>

\* acquire that calls Pool::acquire under the lock instead of waiting
TS_AcquireLoop_failfast(t) ==
    /\ pc[t] = "acq_loop" /\ mutex_ = t
    /\ mutex_' = NoThread
    /\ \E vok \in Outcomes(callbacks.validator), cok \in BOOLEAN :
       /\ cok => created + 1 \in Resources
       /\ LET a == Pool_acquire(pool, config, callbacks, vok, cok, created + 1)
          IN /\ a.res = "ok" => FreeSlots # {}
             /\ pool' = a.pool
             /\ created' = IF a.made THEN created + 1 ELSE created
             /\ IF a.res = "ok"
                THEN /\ handles' = Receive(handles, a.rid)
                     /\ relcount' = Bump(relcount, a.rid, 1)
                ELSE UNCHANGED <<handles, relcount>>
             /\ pc' = [pc EXCEPT ![t] = "idle"]
             /\ deadline' = [deadline EXCEPT ![t] = 0]
             /\ hist' = [hist EXCEPT ![t] = "none"]
             /\ last' = AcquireEvent(a, hist[t])
             /\ a.res = "ok" => ~HuskReleases(a.rid)
    /\ UNCHANGED <<phase, kind, config, callbacks, rel, now>>

\* line 206-230 with the mutex held: either enter cv_.wait_until (which
\* unlocks), or run the checkout logic and return, which destroys the
\* unique_lock and hands the Result to the caller
TS_AcquireLoop(t) ==
    /\ pc[t] = "acq_loop" /\ mutex_ = t
    /\ mutex_' = NoThread
    /\ IF MustWait(pool, config)
       THEN /\ pc' = [pc EXCEPT ![t] = "acq_wait"]
            /\ hist' = [hist EXCEPT ![t] = IF @ = "none" THEN "waited" ELSE @]
            /\ last' = Event("step", "none", 0, 0)
            /\ UNCHANGED <<pool, created, handles, relcount, deadline>>
       ELSE \E vok \in Outcomes(callbacks.validator), cok \in BOOLEAN :
            /\ cok => created + 1 \in Resources
            /\ LET a == TS_acquire_locked(pool, config, callbacks, vok, cok,
                                          created + 1)
               IN /\ a.res = "ok" => FreeSlots # {}
                  /\ pool' = a.pool
                  /\ created' = IF a.made THEN created + 1 ELSE created
                  /\ IF a.res = "ok"
                     THEN /\ handles' = Receive(handles, a.rid)
                          /\ relcount' = Bump(relcount, a.rid, 1)
                     ELSE UNCHANGED <<handles, relcount>>
                  /\ pc' = [pc EXCEPT ![t] = "idle"]
                  /\ deadline' = [deadline EXCEPT ![t] = 0]
                  /\ hist' = [hist EXCEPT ![t] = "none"]
                  /\ last' = AcquireEvent(a, hist[t])
                  \* a temporary that released under the lock would lock
                  \* the non-recursive mutex_ again
                  /\ a.res = "ok" => ~HuskReleases(a.rid)
    /\ UNCHANGED <<phase, kind, config, callbacks, rel, now>>

\* cv_.wait_until wakes because the deadline has passed
TS_TimerWake(t) ==
    /\ pc[t] = "acq_wait"
    /\ now >= deadline[t]
    /\ pc' = [pc EXCEPT ![t] = "acq_woken_t"]
    /\ last' = Event("step", "none", 0, 0)
    /\ UNCHANGED <<phase, kind, config, callbacks, pool, mutex_, deadline, rel, hist,
                   handles, now, created, relcount>>

\* cv_.wait_until wakes spuriously
TS_SpuriousWake(t) ==
    /\ pc[t] = "acq_wait"
    /\ pc' = [pc EXCEPT ![t] = "acq_woken_n"]
    /\ last' = Event("step", "none", 0, 0)
    /\ UNCHANGED <<phase, kind, config, callbacks, pool, mutex_, deadline, rel, hist,
                   handles, now, created, relcount>>

\* a wait loop that computes the deadline anew on every wake-up
TS_Relock_extend(t) ==
    /\ pc[t] \in {"acq_woken_t", "acq_woken_n"}
    /\ mutex_ = NoThread
    /\ \E timeout \in BOOLEAN :
       /\ pc[t] = "acq_woken_t" => timeout
       /\ now < deadline[t] => ~timeout
       /\ IF timeout
          THEN /\ pc' = [pc EXCEPT ![t] = "idle"]
               /\ deadline' = [deadline EXCEPT ![t] = 0]
               /\ hist' = [hist EXCEPT ![t] = "none"]
               /\ last' = [Event("acquire", "timeout", 0, 0)
                              EXCEPT !.hist = hist[t]]
               /\ UNCHANGED mutex_
          ELSE /\ pc' = [pc EXCEPT ![t] = "acq_loop"]
               /\ mutex_' = t
               /\ deadline' = [deadline EXCEPT
                                 ![t] = now + config.acquire_timeout]
               /\ last' = Event("step", "none", 0, 0)
               /\ UNCHANGED hist
    /\ UNCHANGED <<phase, kind, config, callbacks, pool, rel, handles, now,
                   created, relcount>>

\* cv_.wait_until re-locks the mutex and returns its cv_status; line 207-209
\* returns the timeout error on cv_status::timeout without reading the pool
\* again (the unique_lock is destroyed), otherwise the loop condition is
\* evaluated again.  A wake-up by notify that re-locks after the deadline
\* may report either status.
TS_Relock(t) ==
    /\ pc[t] \in {"acq_woken_t", "acq_woken_n"}
    /\ mutex_ = NoThread
    /\ \E timeout \in BOOLEAN :
       /\ pc[t] = "acq_woken_t" => timeout
       /\ now < deadline[t] => ~timeout
       /\ IF timeout
          THEN /\ pc' = [pc EXCEPT ![t] = "idle"]
               /\ deadline' = [deadline EXCEPT ![t] = 0]
               /\ hist' = [hist EXCEPT ![t] = "none"]
               /\ last' = [Event("acquire", "timeout", 0, 0)
                              EXCEPT !.hist = hist[t]]
               /\ UNCHANGED mutex_
          ELSE /\ pc' = [pc EXCEPT ![t] = "acq_loop"]
               /\ mutex_' = t
               /\ last' = Event("step", "none", 0, 0)
               /\ UNCHANGED <<deadline, hist>>
    /\ UNCHANGED <<phase, kind, config, callbacks, pool, rel, handles, now,
                   created, relcount>>

\* --------------------------------------------------------- handle operations
\* the handle operation, once release() of handle r.h has returned
Finish(hs, r) ==
    IF r.op = "assign"
    THEN Assigned([hs EXCEPT ![r.h] = Released(hs[r.h])], r.h, r.src)
    ELSE [hs EXCEPT ![r.h] = NoHandle]

\* a handle operation by thread t that starts with release() of handle h:
\* ~PooledResource (op = "destroy") or move assignment into h (op = "assign").
\* On the single-threaded pool releaser_ runs Pool::do_release at once; on
\* the thread-safe pool the thread goes on to lock the mutex.
StartRelease(t, h, op, src) ==
    IF ~Armed(handles[h])
    THEN /\ handles' = Finish(handles, [h |-> h, op |-> op, src |-> src])
         /\ last' = Event(op, "noop", 0, 0)
         /\ UNCHANGED <<pool, pc, rel, relcount>>
    ELSE /\ relcount' = Bump(relcount, handles[h].rid, -1)
         /\ IF kind = "Pool"
            THEN \E rok \in Outcomes(callbacks.resetter),
                    vok \in Outcomes(callbacks.validator) :
                 LET d == Pool_do_release(pool, config, callbacks,
                                          handles[h].rid, rok, vok)
                 IN /\ pool' = d.pool
                    /\ handles' = Finish(handles,
                                         [h |-> h, op |-> op, src |-> src])
                    /\ last' = ReleaseEvent(d, handles[h].rid, rok, vok)
                    /\ UNCHANGED <<pc, rel>>
            ELSE /\ pc' = [pc EXCEPT ![t] = "rel_lock"]
                 /\ rel' = [rel EXCEPT ![t] = [h |-> h, op |-> op, src |-> src]]
                 /\ last' = Event("release_call", "none", handles[h].rid, 0)
                 /\ UNCHANGED <<pool, handles>>

\* ~PooledResource
Destroy(t, h) ==
    /\ CanAct(t)
    /\ handles[h].live /\ ~Busy(h)
    /\ StartRelease(t, h, "destroy", 0)
    /\ UNCHANGED <<phase, kind, config, callbacks, mutex_, deadline, hist,
                   now, created>>

\* PooledResource(PooledResource&& other)
MoveConstruct(t, src) ==
    /\ CanAct(t)
    /\ handles[src].live /\ ~Busy(src)
    /\ FreeSlots # {}
    /\ handles' = [handles EXCEPT ![SlotFor(0)] = MovedTo(handles[src]),
                                  ![src] = MovedFrom(handles[src])]
    /\ last' = Event("move", "none", handles[src].rid, 0)
    /\ UNCHANGED <<phase, kind, config, callbacks, pool, mutex_, pc, deadline,
                   rel, hist, now, created, relcount>>

\* operator=(PooledResource&& other)
MoveAssign(t, dst, src) ==
    /\ CanAct(t)
    /\ handles[dst].live /\ ~Busy(dst)
    /\ handles[src].live /\ ~Busy(src)
    /\ IF dst = src
       THEN /\ last' = Event("assign", "self", 0, 0)
            /\ UNCHANGED <<pool, pc, rel, handles, relcount>>
       ELSE StartRelease(t, dst, "assign", src)
    /\ UNCHANGED <<phase, kind, config, callbacks, mutex_, deadline, hist,
                   now, created>>

\* ---------------------------------------------------- thread-safe release
\* a do_release that calls notify_one inside the scope of the lock_guard
TS_ReleaseLocked_hold(t) ==
    /\ pc[t] = "rel_lock"
    /\ mutex_ = NoThread
    /\ mutex_' = t
    /\ \E rok \in Outcomes(callbacks.resetter),
          vok \in Outcomes(callbacks.validator) :
       LET d == Pool_do_release(pool, config, callbacks, handles[rel[t].h].rid,
                                rok, vok)
       IN /\ pool' = d.pool
          /\ last' = ReleaseEvent(d, handles[rel[t].h].rid, rok, vok)
    /\ pc' = [pc EXCEPT ![t] = "rel_notify"]
    /\ UNCHANGED <<phase, kind, config, callbacks, deadline, rel, hist,
                   handles, now, created, relcount>>

\* ThreadSafePool::do_release, line 247-250: Pool::do_release inside the
\* scope of std::lock_guard lock(mutex_)
TS_ReleaseLocked(t) ==
    /\ pc[t] = "rel_lock"
    /\ mutex_ = NoThread
    /\ \E rok \in Outcomes(callbacks.resetter),
          vok \in Outcomes(callbacks.validator) :
       LET d == Pool_do_release(pool, config, callbacks, handles[rel[t].h].rid,
                                rok, vok)
       IN /\ pool' = d.pool
          /\ last' = ReleaseEvent(d, handles[rel[t].h].rid, rok, vok)
    /\ pc' = [pc EXCEPT ![t] = "rel_notify"]
    \* the threads in the wait loop have now seen a release: before their
    \* deadline ("released") or, if none came before it, after it ("late")
    /\ hist' = [w \in Threads |->
                 IF pc[w] \in {"acq_wait", "acq_woken_t", "acq_woken_n"}
                 THEN IF now < deadline[w] THEN "released"
                      ELSE IF hist[w] = "waited" THEN "late" ELSE hist[w]
                 ELSE hist[w]]
    /\ UNCHANGED <<phase, kind, config, callbacks, mutex_, deadline, rel,
                   handles, now, created, relcount>>

\* the threads blocked inside cv_.wait_until
Waiters == {w \in Threads : pc[w] = "acq_wait"}

\* line 251: cv_.notify_one() wakes one blocked thread, if there is one;
\* then releaser_ returns and release() clears the handle
TS_ReleaseNotify(t) ==
    /\ pc[t] = "rel_notify"
    /\ IF Waiters = {}
       THEN pc' = [pc EXCEPT ![t] = "idle"]
       ELSE \E w \in Waiters :
            pc' = [pc EXCEPT ![t] = "idle", ![w] = "acq_woken_n"]
    /\ handles' = Finish(handles, rel[t])
    /\ rel' = [rel EXCEPT ![t] = NoRel]
    /\ last' = Event("step", "none", 0, 0)
    /\ UNCHANGED <<phase, kind, config, callbacks, pool, mutex_, deadline, hist,
                   now, created, relcount>>

\* ------------------------------------------------------------------ clock
\* the steady clock advances; only a thread inside the wait loop whose
\* deadline is still ahead can tell
Tick ==
    /\ now < MaxTime
    /\ \E t \in Threads :
       /\ pc[t] \in {"acq_loop", "acq_wait", "acq_woken_n"}
       /\ now < deadline[t]
    /\ now' = now + 1
    /\ last' = Event("step", "none", 0, 0)
    /\ UNCHANGED <<phase, kind, config, callbacks, pool, mutex_, pc, deadline,
                   rel, hist, handles, created, relcount>>

\* ---------------------------------------------------------- specifications
\* the steps of the pools and of the handles they give out, which the
\* callers release by destroying them; nobody calls with_resource
Next ==
    \/ Create /\ UNCHANGED bracket
    \/ Tick /\ UNCHANGED bracket
    \/ \E t \in Threads : Acquire(t) /\ UNCHANGED bracket
    \/ \E t \in Threads : TS_AcquireLock(t) /\ UNCHANGED bracket
    \/ \E t \in Threads : TS_AcquireLoop(t) /\ UNCHANGED bracket
    \/ \E t \in Threads : TS_TimerWake(t) /\ UNCHANGED bracket
    \/ \E t \in Threads : TS_SpuriousWake(t) /\ UNCHANGED bracket
    \/ \E t \in Threads : TS_Relock(t) /\ UNCHANGED bracket
    \/ \E t \in Threads : TS_ReleaseLocked(t) /\ UNCHANGED bracket
    \/ \E t \in Threads : TS_ReleaseNotify(t) /\ UNCHANGED bracket
    \/ \E t \in Threads, h \in Handles : Destroy(t, h) /\ UNCHANGED bracket

Spec == Init /\ [][Next]_vars

\* the same with the callers also moving their handles around, on pools
\* that time out at once (the clock plays no part)
HandleInit ==
    /\ kind \in {"Pool", "ThreadSafePool"}
    /\ config \in PoolConfig
    /\ callbacks \in [validator : BOOLEAN, resetter : BOOLEAN]
    /\ Modelled(kind, config, callbacks)
    /\ config.min_size = 0
    /\ callbacks.validator /\ callbacks.resetter
    /\ config.validate_on_acquire /\ config.validate_on_release
    /\ validate_config(config) = "ok"
    /\ config.max_size \in TSSizes
    /\ config.acquire_timeout = 0
    /\ kind = "ThreadSafePool" => config.max_size = 1
    /\ InitRest

HandleNext ==
    \/ Create /\ UNCHANGED bracket
    \/ \E t \in Threads : Acquire(t) /\ UNCHANGED bracket
    \/ \E t \in Threads : TS_AcquireLock(t) /\ UNCHANGED bracket
    \/ \E t \in Threads : TS_AcquireLoop(t) /\ UNCHANGED bracket
    \/ \E t \in Threads : TS_TimerWake(t) /\ UNCHANGED bracket
    \/ \E t \in Threads : TS_SpuriousWake(t) /\ UNCHANGED bracket
    \/ \E t \in Threads : TS_Relock(t) /\ UNCHANGED bracket
    \/ \E t \in Threads : TS_ReleaseLocked(t) /\ UNCHANGED bracket
    \/ \E t \in Threads : TS_ReleaseNotify(t) /\ UNCHANGED bracket
    \/ \E t \in Threads, h \in Handles : Destroy(t, h) /\ UNCHANGED bracket
    \/ \E t \in Threads, h \in Handles : MoveConstruct(t, h) /\ UNCHANGED bracket
    \/ \E t \in Threads, g, h \in Handles : MoveAssign(t, g, h) /\ UNCHANGED bracket

HandleSpec == HandleInit /\ [][HandleNext]_vars

\* ------------------------------------------------------------------ stats
\* the PoolStats a call of stats() returned
StatsEvent(snapshot) == Event("stats", "ok", 0, 0) @@ [snap |-> snapshot]

\* Pool::stats on the single-threaded pool
Stats(t) ==
    /\ CanAct(t) /\ kind = "Pool"
    /\ last' = StatsEvent(stats)
    /\ UNCHANGED <<phase, kind, config, callbacks, pool, mutex_, pc, deadline,
                   rel, hist, handles, now, created, relcount>>

\* a stats() override that reads the pool without locking
TS_Stats_nolock(t) ==
    /\ CanAct(t) /\ kind = "ThreadSafePool"
    /\ last' = StatsEvent(stats)
    /\ UNCHANGED <<phase, kind, config, callbacks, pool, mutex_, pc, deadline,
                   rel, hist, handles, now, created, relcount>>

\* ThreadSafePool::stats, line 236-237: Pool::stats inside the scope of
\* std::lock_guard lock(mutex_)
TS_Stats(t) ==
    /\ CanAct(t) /\ kind = "ThreadSafePool"
    /\ mutex_ = NoThread
    /\ last' = StatsEvent(stats)
    /\ UNCHANGED <<phase, kind, config, callbacks, pool, mutex_, pc, deadline,
                   rel, hist, handles, now, created, relcount>>

\* callers that take snapshots while acquires and releases go on, on pools
\* that time out at once
StatsInit ==
    /\ kind \in {"Pool", "ThreadSafePool"}
    /\ config \in PoolConfig
    /\ callbacks \in [validator : BOOLEAN, resetter : BOOLEAN]
    /\ Modelled(kind, config, callbacks)
    /\ validate_config(config) = "ok"
    /\ config.acquire_timeout = 0
    /\ InitRest

StatsNext ==
    \/ Create /\ UNCHANGED bracket
    \/ \E t \in Threads : Acquire(t) /\ UNCHANGED bracket
    \/ \E t \in Threads : TS_AcquireLock(t) /\ UNCHANGED bracket
    \/ \E t \in Threads : TS_AcquireLoop(t) /\ UNCHANGED bracket
    \/ \E t \in Threads : TS_TimerWake(t) /\ UNCHANGED bracket
    \/ \E t \in Threads : TS_SpuriousWake(t) /\ UNCHANGED bracket
    \/ \E t \in Threads : TS_Relock(t) /\ UNCHANGED bracket
    \/ \E t \in Threads : TS_ReleaseLocked(t) /\ UNCHANGED bracket
    \/ \E t \in Threads : TS_ReleaseNotify(t) /\ UNCHANGED bracket
    \/ \E t \in Threads, h \in Handles : Destroy(t, h) /\ UNCHANGED bracket
    \/ \E t \in Threads : Stats(t) /\ UNCHANGED bracket
    \/ \E t \in Threads : TS_Stats(t) /\ UNCHANGED bracket

StatsSpec == StatsInit /\ [][StatsNext]_vars

\* ------------------------------------------------------------- scheduling
\* the thread-safe pool used by two threads, with pools that time out at
\* once (the clock plays no part)
FairInit ==
    /\ kind = "ThreadSafePool"
    /\ config \in PoolConfig
    /\ callbacks \in [validator : BOOLEAN, resetter : BOOLEAN]
    /\ Modelled(kind, config, callbacks)
    /\ validate_config(config) = "ok"
    /\ config.min_size = 0
    /\ config.acquire_timeout = 0
    /\ InitRest

FairNext ==
    \/ Create /\ UNCHANGED bracket
    \/ \E t \in Threads : TS_AcquireLock(t) /\ UNCHANGED bracket
    \/ \E t \in Threads : TS_AcquireLoop(t) /\ UNCHANGED bracket
    \/ \E t \in Threads : TS_TimerWake(t) /\ UNCHANGED bracket
    \/ \E t \in Threads : TS_SpuriousWake(t) /\ UNCHANGED bracket
    \/ \E t \in Threads : TS_Relock(t) /\ UNCHANGED bracket
    \/ \E t \in Threads : TS_ReleaseLocked(t) /\ UNCHANGED bracket
    \/ \E t \in Threads : TS_ReleaseNotify(t) /\ UNCHANGED bracket
    \/ \E t \in Threads, h \in Handles : Destroy(t, h) /\ UNCHANGED bracket

\* Scheduling: a thread that runs keeps running (creator, validator and
\* resetter terminate), a timed wait ends at its deadline, and a thread that
\* waits for the mutex gets it if it is free again and again.  Nothing
\* forces a caller to call acquire or to destroy a handle, and nothing
\* forces a spurious wake-up.
Fairness(T) ==
    \A t \in T :
        /\ WF_vars(TS_AcquireLoop(t) /\ UNCHANGED bracket)
        /\ WF_vars(TS_TimerWake(t) /\ UNCHANGED bracket)
        /\ WF_vars(TS_ReleaseNotify(t) /\ UNCHANGED bracket)
        /\ SF_vars(TS_Relock(t) /\ UNCHANGED bracket)
        /\ SF_vars(TS_ReleaseLocked(t) /\ UNCHANGED bracket)

FairSpec == FairInit /\ [][FairNext]_vars /\ Fairness(Callers)

\* ------------------------------------------------------- several waiters
\* three threads share a thread-safe pool of one resource, so that two of
\* them can be in the wait loop while the third releases
WaitThreads == {"t1", "t2", "t3"}

WaitInit ==
    /\ kind = "ThreadSafePool"
    /\ config \in PoolConfig
    /\ callbacks \in [validator : BOOLEAN, resetter : BOOLEAN]
    /\ Modelled(kind, config, callbacks)
    /\ config.min_size = 0 /\ config.max_size = 1
    /\ config.acquire_timeout = 1
    /\ InitWith(WaitThreads, 1)

WaitNext ==
    \/ Create /\ UNCHANGED bracket
    \/ Tick /\ UNCHANGED bracket
    \/ \E t \in Threads :
          \* calls start while their deadline is within the clock's range,
          \* so that every wait of this specification can run out
          /\ now + config.acquire_timeout <= MaxTime
          /\ TS_AcquireLock(t) /\ UNCHANGED bracket
    \/ \E t \in Threads : TS_AcquireLoop(t) /\ UNCHANGED bracket
    \/ \E t \in Threads : TS_TimerWake(t) /\ UNCHANGED bracket
    \/ \E t \in Threads : TS_SpuriousWake(t) /\ UNCHANGED bracket
    \/ \E t \in Threads : TS_Relock(t) /\ UNCHANGED bracket
    \/ \E t \in Threads : TS_ReleaseLocked(t) /\ UNCHANGED bracket
    \/ \E t \in Threads : TS_ReleaseNotify(t) /\ UNCHANGED bracket
    \/ \E t \in Threads, h \in Handles : Destroy(t, h) /\ UNCHANGED bracket

\* the scheduling of FairSpec, and the clock goes on
WaitSpec ==
    WaitInit /\ [][WaitNext]_vars
    /\ Fairness(WaitThreads) /\ WF_vars(Tick /\ UNCHANGED bracket)

\* ---------------------------------------------------------- with_resource
\* line 89-95: what with_resource does with the Result of acquire.  On an
\* error it returns that error.  Otherwise `resource` is move-constructed
\* from the handle in the Result (slot h keeps the same fields, the Result
\* keeps the moved-from husk) and the body runs.
Acquired(b, ev, h, hs) ==
    IF ev.res = "ok"
    THEN [b EXCEPT !.st = "body", !.h = h, !.rid = ev.rid,
                   !.husk = MovedFrom(hs[h])]
    ELSE [b EXCEPT !.st = "exit", !.res = ev.res]

\* a body whose handle is given back by hand after f returns
ScopeExitDestroys_byhand(raised) == ~raised

\* line 95-101: `resource` is a local object, so leaving the scope destroys
\* it both when f returns and when f raises
ScopeExitDestroys(raised) == TRUE

\* with_resource is called on the single-threaded pool: line 89, acquire()
WR_Call(t) ==
    /\ CanAct(t)
    /\ Acquire(t)
    /\ bracket' = [bracket EXCEPT ![t] =
            Acquired([@ EXCEPT !.before = pool.in_use_], last',
                     IF last'.res = "ok" THEN SlotFor(last'.rid) ELSE 0,
                     handles')]

\* with_resource is called on the thread-safe pool: acquire() locks
WR_CallLock(t) ==
    /\ CanAct(t)
    /\ TS_AcquireLock(t)
    /\ bracket' = [bracket EXCEPT ![t] = [@ EXCEPT !.st = "acquire"]]

\* what a step of the thread-safe acquire or release by thread t means for
\* its with_resource call, if it is inside one: the call goes on when
\* acquire or the releaser returns
WR_Follow(t) ==
    bracket' = [bracket EXCEPT ![t] =
        IF pc'[t] # "idle" \/ @.st \notin {"acquire", "release"} THEN @
        ELSE IF @.st = "acquire"
             THEN Acquired(@, last',
                           IF last'.res = "ok" THEN SlotFor(last'.rid) ELSE 0,
                           handles')
             ELSE [@ EXCEPT !.st = "exit", !.h = 0]]

\* the body f returns or raises and `resource` is destroyed
WR_BodyEnd(t) ==
    /\ bracket[t].st = "body" /\ pc[t] = "idle"
    /\ \E raised \in BOOLEAN :
       /\ IF ScopeExitDestroys(raised)
          THEN StartRelease(t, bracket[t].h, "destroy", 0)
          ELSE /\ handles' = [handles EXCEPT ![bracket[t].h] = NoHandle]
               /\ last' = Event("step", "none", 0, 0)
               /\ UNCHANGED <<pool, pc, rel, relcount>>
       /\ bracket' = [bracket EXCEPT ![t] =
               [@ EXCEPT !.st = IF pc'[t] = "idle" THEN "exit" ELSE "release",
                         !.h = IF pc'[t] = "idle" THEN 0 ELSE @,
                         !.res = IF raised THEN "raised" ELSE "ok",
                         !.rels = IF ScopeExitDestroys(raised)
                                     /\ Armed(handles[bracket[t].h])
                                  THEN @ + 1 ELSE @]]
    /\ UNCHANGED <<phase, kind, config, callbacks, mutex_, deadline, hist,
                   now, created>>

\* with_resource returns: the Result of acquire, holding the husk, is
\* destroyed last.  once: the call was all the thread had to do (main.cpp
\* line 164-170), and the thread ends
WR_Return(t, once) ==
    /\ bracket[t].st = "exit" /\ pc[t] = "idle"
    /\ mutex_ = NoThread
    /\ IF Armed(bracket[t].husk)
       THEN \E rok \in Outcomes(callbacks.resetter),
               vok \in Outcomes(callbacks.validator) :
            pool' = Pool_do_release(pool, config, callbacks,
                                    bracket[t].husk.rid, rok, vok).pool
       ELSE UNCHANGED pool
    /\ last' = [Event("with_resource", bracket[t].res, bracket[t].rid, 0)
                   EXCEPT !.calls = bracket[t].rels
                                    + IF Armed(bracket[t].husk) THEN 1 ELSE 0]
    /\ bracket' = [bracket EXCEPT ![t] = [NoBracket EXCEPT !.done = once]]
    /\ UNCHANGED <<phase, kind, config, callbacks, mutex_, pc, deadline, rel,
                   hist, handles, now, created, relcount>>

\* callers that use the pool through with_resource as well as through
\* acquire, on pools that time out at once
BracketNext ==
    \/ Create /\ UNCHANGED bracket
    \/ \E t \in Threads : Acquire(t) /\ UNCHANGED bracket
    \/ \E t \in Threads : TS_AcquireLock(t) /\ UNCHANGED bracket
    \/ \E t \in Threads : TS_AcquireLoop(t) /\ WR_Follow(t)
    \/ \E t \in Threads : TS_TimerWake(t) /\ WR_Follow(t)
    \/ \E t \in Threads : TS_SpuriousWake(t) /\ WR_Follow(t)
    \/ \E t \in Threads : TS_Relock(t) /\ WR_Follow(t)
    \/ \E t \in Threads : TS_ReleaseLocked(t) /\ WR_Follow(t)
    \/ \E t \in Threads : TS_ReleaseNotify(t) /\ WR_Follow(t)
    \/ \E t \in Threads, h \in Handles : Destroy(t, h) /\ UNCHANGED bracket
    \/ \E t \in Threads : WR_Call(t)
    \/ \E t \in Threads : WR_CallLock(t)
    \/ \E t \in Threads : WR_BodyEnd(t)
    \/ \E t \in Threads : WR_Return(t, FALSE)

BracketInit ==
    /\ kind \in {"Pool", "ThreadSafePool"}
    /\ config \in PoolConfig
    /\ callbacks \in [validator : BOOLEAN, resetter : BOOLEAN]
    /\ Modelled(kind, config, callbacks)
    /\ callbacks.validator /\ callbacks.resetter
    /\ config.validate_on_acquire /\ config.validate_on_release
    /\ validate_config(config) = "ok"
    /\ config.acquire_timeout = 0
    /\ InitRest

BracketSpec == BracketInit /\ [][BracketNext]_vars

\* ------------------------------------------------- demo_thread_safe_pool
\* main.cpp line 153-154 and 163: thread_pool_config.with_min_size(2)
\* .with_max_size(4), six threads
DemoMin == 2
DemoMax == 4
DemoThreadCount == 6
DemoOrder == <<"t1", "t2", "t3", "t4", "t5", "t6">>
DemoThreads == {DemoOrder[i] : i \in 1..DemoThreadCount}

\* create_thread_safe with thread_pool_config: no validation, a validator
\* and a resetter that always succeed
DemoInit ==
    /\ kind = "ThreadSafePool"
    /\ config = [min_size |-> DemoMin, max_size |-> DemoMax,
                 acquire_timeout |-> 1,
                 validate_on_acquire |-> FALSE, validate_on_release |-> FALSE]
    /\ callbacks = [validator |-> FALSE, resetter |-> FALSE]
    /\ InitWith(DemoThreads, DemoThreadCount)

\* main.cpp line 151: the factory of the demo returns ok every time
FactoryNeverFails ==
    last'.op \in {"create", "acquire"} => created' = created + last'.calls

\* main.cpp line 165-169: the body of the demo does not raise
BodyNeverRaises == \A t \in Threads : bracket'[t].res # "raised"

\* A thread that holds the mutex, or whose next step touches nothing but
\* its own locals (it leaves the body and calls the releaser, or returns
\* from with_resource) takes that step before any other thread moves: the
\* step commutes with every step of the other threads, and a thread that
\* has called the releaser still holds its resource until it gets the mutex.
\* So does a thread about to call notify_one: a waiter that a later notify
\* would have found is woken by a spurious wake-up instead.
Urgent(t) ==
    \/ pc[t] \in {"acq_loop", "rel_notify"}
    \/ bracket[t].st \in {"body", "exit"}
Turn(t) == (\E u \in Threads : Urgent(u)) => Urgent(t)

\* The threads run the same code, so the order in which they make their
\* calls is taken to be the order in which they were spawned.
StartsInOrder(t) ==
    \A i \in 1..DemoThreadCount :
        DemoOrder[i] = t
        => \A j \in 1..(i - 1) : bracket[DemoOrder[j]] # NoBracket

\* each thread makes one with_resource call and ends
DemoNext ==
    \/ Create /\ UNCHANGED bracket /\ FactoryNeverFails
    \/ (\A u \in Threads : ~Urgent(u)) /\ Tick /\ UNCHANGED bracket
    \/ \E t \in Threads : Turn(t) /\ ~bracket[t].done /\ StartsInOrder(t) /\ WR_CallLock(t)
    \/ \E t \in Threads : Turn(t) /\ TS_AcquireLoop(t) /\ WR_Follow(t) /\ FactoryNeverFails
    \/ \E t \in Threads : Turn(t) /\ TS_TimerWake(t) /\ WR_Follow(t)
    \/ \E t \in Threads : Turn(t) /\ TS_SpuriousWake(t) /\ WR_Follow(t)
    \/ \E t \in Threads : Turn(t) /\ TS_Relock(t) /\ WR_Follow(t)
    \/ \E t \in Threads : Turn(t) /\ TS_ReleaseLocked(t) /\ WR_Follow(t)
    \/ \E t \in Threads : Turn(t) /\ TS_ReleaseNotify(t) /\ WR_Follow(t)
    \/ \E t \in Threads : Turn(t) /\ WR_BodyEnd(t) /\ BodyNeverRaises
    \/ \E t \in Threads : Turn(t) /\ WR_Return(t, TRUE)

DemoSpec == DemoInit /\ [][DemoNext]_vars

TypeOK ==
    /\ phase \in {"unbuilt", "ready", "config_error"}
    /\ pool.in_use_ \in Nat
    /\ pool.total_created_ \in Nat
    /\ mutex_ \in Threads \cup {NoThread}
    /\ now \in 0..MaxTime

\* ------------------------------------------------------------------ claims
Range(q) == {q[i] : i \in 1..Len(q)}
NoDuplicates(q) == Cardinality(Range(q)) = Len(q)

\* the handles whose release callback has not run Pool::do_release yet
Outstanding ==
    {h \in Handles :
        /\ Armed(handles[h])
        /\ ~\E t \in Threads : pc[t] = "rel_notify" /\ rel[t].h = h}

InAcquire(t) == pc[t] \in {"acq_loop", "acq_wait", "acq_woken_t", "acq_woken_n"}

\* C1: in every reachable state of the single-threaded and of the thread-safe
\* pool, in_use is at most max_size, whatever creator, validator and resetter
\* return, also after an idle resource was rejected on acquire and replaced
\* without a capacity check.
Thm_C1 == phase = "ready" => pool.in_use_ <= config.max_size

\* a rejected idle resource was replaced and the pool is now at max_size
Wit_C1 ==
    /\ kind = "ThreadSafePool"
    /\ last.op = "acquire" /\ last.rejected /\ last.res = "ok"
    /\ pool.in_use_ = config.max_size

\* C2: the live instances are bounded: idle resources plus checked-out ones
\* never exceed max_size, for every accepted configuration.
Thm_C2 ==
    phase = "ready" => Len(pool.available_) + pool.in_use_ <= config.max_size

\* idle and checked-out resources together fill the pool
Wit_C2 ==
    /\ Len(pool.available_) >= 1 /\ pool.in_use_ >= 1
    /\ Len(pool.available_) + pool.in_use_ = config.max_size
    /\ last.op = "release"

\* C3: in_use equals the number of outstanding handles; it goes up by one
\* only when an acquire returns a handle and down by one only in a handle's
\* release, and no other step changes it.
InUseIsOutstanding == pool.in_use_ = Cardinality(Outstanding)
InUseStep ==
    /\ pool'.in_use_ > pool.in_use_ =>
         /\ pool'.in_use_ = pool.in_use_ + 1
         /\ last'.op = "acquire" /\ last'.res = "ok"
    /\ pool'.in_use_ < pool.in_use_ =>
         /\ pool'.in_use_ = pool.in_use_ - 1
         /\ last'.op = "release"
    /\ last'.op = "acquire" /\ last'.res = "ok" => pool'.in_use_ = pool.in_use_ + 1
    /\ last'.op = "release" => pool'.in_use_ = pool.in_use_ - 1
Thm_C3 == []InUseIsOutstanding /\ [][InUseStep]_vars

\* one handle has been released while another is still checked out
Wit_C3 ==
    /\ last.op = "release"
    /\ pool.in_use_ = 1 /\ Cardinality(Outstanding) = 1

\* C4: total_created never decreases and equals the number of creator
\* invocations that returned ok (pre-warm and acquire); a failed acquire and
\* a release, discarding or not, leave it unchanged.
TotalCreatedStep ==
    /\ pool'.total_created_ >= pool.total_created_
    /\ last'.op = "release" => pool'.total_created_ = pool.total_created_
    /\ last'.op = "acquire" /\ last'.res # "ok" =>
         pool'.total_created_ = pool.total_created_
Thm_C4 == [](pool.total_created_ = created) /\ [][TotalCreatedStep]_vars

\* a pre-warmed pool has also created a resource during an acquire, and a
\* release then discarded one
Wit_C4 ==
    /\ config.min_size >= 1
    /\ last.op = "release" /\ last.res # "returned"
    /\ pool.total_created_ > config.min_size

\* C5: the release callback runs at most once per checkout, whatever the
\* callers move, assign and destroy: no resource has more release callbacks
\* than checkouts, none is idle twice or idle while a live handle still owns
\* it, and in_use stays the number of outstanding handles.
Thm_C5 ==
    /\ \A r \in Resources : relcount[r] \in {0, 1}
    /\ NoDuplicates(pool.available_)
    /\ Range(pool.available_) \subseteq Resources
    /\ \A h \in Outstanding : handles[h].rid \notin Range(pool.available_)
    /\ pool.in_use_ = Cardinality(Outstanding)

\* a moved-from handle has just been destroyed, releasing nothing, while
\* the handle it was moved to still holds the resource
Wit_C5 ==
    /\ last.op = "destroy" /\ last.res = "noop"
    /\ pool.in_use_ = 1 /\ Cardinality(Outstanding) = 1

\* C6: on the single-threaded pool an acquire made with no idle resource and
\* in_use >= max_size fails with the exhaustion error, invokes no creator
\* and changes neither the pool nor the handles.
ExhaustedStep ==
    (/\ kind = "Pool"
     /\ last'.op = "acquire"
     /\ pool.available_ = <<>> /\ pool.in_use_ >= config.max_size)
    => /\ last'.res = "exhausted" /\ last'.calls = 0
       /\ UNCHANGED <<pool, created, handles>>
Thm_C6 == [][ExhaustedStep]_vars

\* the single-threaded pool has just refused an acquire
Wit_C6 ==
    /\ kind = "Pool" /\ last.op = "acquire" /\ last.res = "exhausted"
    /\ pool.in_use_ = config.max_size

\* the pool has no idle resource and no capacity left
Exhausted == pool.available_ = <<>> /\ pool.in_use_ >= config.max_size

\* an acquire of the thread-safe pool that evaluates its wait condition on
\* an exhausted pool goes to wait and returns nothing
BlocksStep ==
    \A t \in Threads :
        (pc[t] = "acq_loop" /\ Exhausted /\ pc'[t] # pc[t])
        => (pc'[t] = "acq_wait" /\ last'.op # "acquire"
            /\ UNCHANGED <<pool, handles, created>>)

\* an acquire that has waited and returns without any release since it
\* began to wait returns the timeout error, and not before its deadline
NoReleaseStep ==
    (kind = "ThreadSafePool" /\ last'.op = "acquire" /\ last'.hist = "waited")
    => /\ last'.res = "timeout"
       /\ \E t \in Threads :
            /\ InAcquire(t) /\ pc'[t] = "idle"
            /\ now >= deadline[t]

\* an acquire that saw a release before its deadline returns a handle
ReleaseSucceedsStep ==
    (kind = "ThreadSafePool" /\ last'.op = "acquire" /\ last'.hist = "released")
    => last'.res = "ok"

\* an acquire that saw a release before its deadline returns a handle, the
\* timeout error or the creator's error; a handle leaves the pool within
\* its capacity
ReleaseOutcomeStep ==
    (kind = "ThreadSafePool" /\ last'.op = "acquire" /\ last'.hist = "released")
    => /\ last'.res \in {"ok", "timeout", "creator_error"}
       /\ last'.res = "ok"
          => /\ pool'.in_use_ = pool.in_use_ + 1
             /\ pool'.in_use_ <= config.max_size
             /\ \E h \in Handles : Armed(handles'[h]) /\ handles'[h].rid = last'.rid
       /\ last'.res = "timeout" => UNCHANGED <<pool, handles, created>>
       /\ last'.res = "creator_error" => pool'.in_use_ = pool.in_use_

\* C7 (as amended): on the thread-safe pool an acquire made while the idle
\* collection is empty and in_use >= max_size blocks; if it ends with no
\* release having happened it ends with the timeout error, at or after its
\* deadline; if another thread releases a resource before the deadline it
\* may end with a handle, but also with the timeout error or with the
\* creator's error.
Thm_C7 == [][BlocksStep /\ NoReleaseStep /\ ReleaseOutcomeStep]_vars

\* a blocked acquire got a handle after a release before its deadline
Wit_C7 ==
    /\ kind = "ThreadSafePool"
    /\ last.op = "acquire" /\ last.res = "ok" /\ last.hist = "released"
    /\ pool.in_use_ = config.max_size

\* C7 as stated: the blocked acquire ends with success whenever another
\* thread releases a resource before the deadline.
Cex_C7 == [][BlocksStep /\ NoReleaseStep /\ ReleaseSucceedsStep]_vars

\* the deadline of a call is now + acquire_timeout at its start and stays
\* what it is until the call returns
DeadlineStep ==
    \A t \in Threads :
        /\ (pc[t] = "idle" /\ pc'[t] = "acq_loop")
           => deadline'[t] = now + config.acquire_timeout
        /\ (InAcquire(t) /\ InAcquire(t)') => deadline'[t] = deadline[t]

\* a call woken by the deadline returns the timeout error as its next step,
\* and the timeout error is returned only at or after the deadline
TimeoutStep ==
    /\ \A t \in Threads :
        (pc[t] = "acq_woken_t" /\ pc'[t] # pc[t])
        => /\ pc'[t] = "idle"
           /\ last'.op = "acquire" /\ last'.res = "timeout"
    /\ (last'.op = "acquire" /\ last'.res = "timeout")
       => \E t \in Threads :
            /\ pc[t] \in {"acq_woken_t", "acq_woken_n"} /\ pc'[t] = "idle"
            /\ now >= deadline[t]

\* a call is blocked past its deadline only until the timer wakes it: it
\* never waits with the deadline ahead by more than acquire_timeout
WaitBounded ==
    \A t \in Threads :
        InAcquire(t) => deadline[t] - now <= config.acquire_timeout

\* C8: an acquire of the thread-safe pool waits for at most acquire_timeout:
\* its deadline is fixed once per call as now + acquire_timeout, no wake-up
\* that finds the pool exhausted extends it, and a call the deadline wakes
\* returns the timeout error instead of waiting again.
Thm_C8 == []WaitBounded /\ [][DeadlineStep /\ TimeoutStep]_vars

\* a call that saw a release, went on waiting and then ran into its deadline
Wit_C8 ==
    /\ last.op = "acquire" /\ last.res = "timeout" /\ last.hist = "released"
    /\ config.acquire_timeout >= 1 /\ now >= config.acquire_timeout

\* the thread-safe pool returns no exhaustion error, and a timeout error
\* only to a call that went through the wait and whose deadline has passed
NoFailFastStep ==
    kind = "ThreadSafePool"
    => /\ last'.res # "exhausted"
       /\ (last'.op = "acquire" /\ last'.res = "timeout")
          => /\ last'.hist # "none"
             /\ \E t \in Threads :
                  /\ pc[t] \in {"acq_woken_t", "acq_woken_n"}
                  /\ pc'[t] = "idle" /\ hist[t] # "none"
                  /\ now >= deadline[t]
       /\ \A t \in Threads :
            (pc[t] = "acq_loop" /\ pc'[t] = "idle")
            => (~Exhausted /\ last'.res \in {"ok", "creator_error"})

\* C9: the acquire of the thread-safe pool never fails fast for lack of
\* capacity: it never returns the exhaustion error of the single-threaded
\* pool, and returns the timeout error only after it has waited and its
\* deadline has passed.
Thm_C9 == [][NoFailFastStep]_vars

\* a call on an exhausted thread-safe pool waited and timed out with no
\* release in between
Wit_C9 ==
    /\ kind = "ThreadSafePool"
    /\ last.op = "acquire" /\ last.res = "timeout" /\ last.hist = "waited"
    /\ Exhausted

\* what Pool::do_release does to the pool for the release just made
ReleaseStep ==
    last'.op = "release"
    => LET reset_ok == ~callbacks.resetter \/ last'.rok
           valid_ok == ~(config.validate_on_release /\ callbacks.validator)
                       \/ last'.vok
       IN /\ pool'.in_use_ = pool.in_use_ - 1
          /\ pool'.total_created_ = pool.total_created_
          /\ created' = created
          /\ last'.rid \in Resources
          /\ IF reset_ok /\ valid_ok
             THEN /\ pool'.available_ = Append(pool.available_, last'.rid)
                  /\ last'.res = "returned"
             ELSE /\ pool'.available_ = pool.available_
                  /\ last'.res \in {"reset_failed", "invalid"}

\* C10: a release decrements in_use by exactly one in every case; the
\* resource is appended to the back of the idle collection when the resetter
\* succeeds (or none is set) and, with validate_on_release on, the validator
\* accepts it; when the resetter fails or the validator rejects it the
\* resource is discarded, available and total_created are unchanged.
Thm_C10 == [][ReleaseStep]_vars

\* the validator has rejected a reset resource on release while another
\* resource is idle
Wit_C10 ==
    /\ last.op = "release" /\ last.res = "invalid"
    /\ callbacks.resetter /\ last.rok /\ ~last.vok
    /\ Len(pool.available_) >= 1

\* a with_resource call returns: the release path has run once if the body
\* ran and not at all otherwise, and nothing of the call stays checked out
BracketReturnStep ==
    \A t \in Threads :
        (bracket[t].st = "exit" /\ bracket'[t].st = "none")
        => /\ last'.op = "with_resource"
           /\ last'.res \in {"ok", "raised"} => last'.calls = 1
           /\ last'.res \notin {"ok", "raised"} => last'.calls = 0
           /\ kind = "Pool" => pool'.in_use_ = bracket[t].before
           /\ pool'.in_use_ = Cardinality(Outstanding')

\* a body runs only on a handle that is checked out, and the handle is
\* gone once the body has ended
BracketBodyStep ==
    \A t \in Threads :
        /\ bracket'[t].st = "body"
           => Armed(handles'[bracket'[t].h]) /\ ~Armed(bracket'[t].husk)
        /\ (bracket[t].st = "body" /\ bracket'[t].st # "body")
           => /\ bracket'[t].res \in {"ok", "raised"}
              /\ last'.op \in {"release", "release_call"}
              /\ last'.rid = bracket[t].rid

\* C11: with_resource cannot leak a resource: when its acquire succeeds the
\* release path runs exactly once after the body, whether the body returns
\* or raises, and in_use after the call equals in_use before it.
Thm_C11 == [][BracketReturnStep /\ BracketBodyStep]_vars

\* a with_resource whose body raised has returned while another handle of
\* the single-threaded pool is checked out
Wit_C11 ==
    /\ kind = "Pool"
    /\ last.op = "with_resource" /\ last.res = "raised" /\ last.calls = 1
    /\ pool.in_use_ = 1

\* C15: on a pool whose creator always fails (no creator call has returned
\* ok), with_resource returns the creation error, never runs the body, and
\* leaves in_use at 0 and total_created and available where they were,
\* after any number of calls.
Thm_C15 ==
    (phase = "ready" /\ created = 0)
    => /\ pool = PoolData(<<>>, 0, 0)
       /\ \A t \in Threads : bracket[t].st \notin {"body", "release"}
       /\ last.op = "with_resource"
          => (last.res = "creator_error" /\ last.calls = 0)

\* a with_resource has returned the creator's error on a pool whose
\* pre-warming failed as well
Wit_C15 ==
    /\ created = 0 /\ config.min_size >= 1
    /\ last.op = "with_resource" /\ last.res = "creator_error"

\* every thread of the demo has made its call and ended
AllDone == \A t \in Threads : bracket[t].done

\* while a call of the demo is unfinished some thread can take a step
DemoProgress == (phase = "ready" /\ ~AllDone) => ENABLED DemoNext

\* C16 (as amended): in demo_thread_safe_pool (max_size 4, min_size 2, six
\* threads each making one with_resource call, a creator that never fails)
\* no interleaving leaves a call stuck, and once all threads have finished
\* total_created is at least 2 and at most 6, in_use is 0 and available is
\* at most 4.
Thm_C16 ==
    /\ DemoProgress
    /\ AllDone => /\ pool.total_created_ >= DemoMin
                  /\ pool.total_created_ <= DemoThreadCount
                  /\ pool.in_use_ = 0
                  /\ Len(pool.available_) <= DemoMax

\* all six are done after four of them held a resource at the same time
Wit_C16 ==
    /\ AllDone
    /\ pool.total_created_ = DemoMax /\ pool.in_use_ = 0
    /\ Len(pool.available_) = DemoMax

\* C16 as stated: once all threads have finished total_created is at least
\* 4 (and at most 6), in_use is 0 and available is at most 4.
Cex_C16 ==
    /\ DemoProgress
    /\ AllDone => /\ pool.total_created_ >= 4
                  /\ pool.total_created_ <= 6
                  /\ pool.in_use_ = 0
                  /\ Len(pool.available_) <= 4

\* the configurations validate_config refuses, and its error messages
BadConfig == config.max_size = 0 \/ config.min_size > config.max_size
ConfigErrors == {"max_size cannot be 0", "min_size cannot exceed max_size"}

\* C12: for every configuration with max_size = 0 or min_size > max_size
\* every create entry point (single-threaded and thread-safe, whichever
\* callbacks it is given) returns a configuration error, builds no pool and
\* never invokes the creator; acquire never returns a configuration error.
Thm_C12 ==
    /\ (BadConfig /\ phase # "unbuilt")
       => /\ phase = "config_error"
          /\ last.op = "create" /\ last.res \in ConfigErrors
          /\ last.calls = 0 /\ created = 0
          /\ pool = PoolData(<<>>, 0, 0)
          /\ \A h \in Handles : handles[h] = NoHandle
    /\ phase = "config_error" => BadConfig
    /\ last.op \in {"acquire", "with_resource"} => last.res \notin ConfigErrors

\* create_thread_safe_validated has refused min_size > max_size
Wit_C12 ==
    /\ phase = "config_error" /\ kind = "ThreadSafePool"
    /\ callbacks.validator /\ ~callbacks.resetter
    /\ config.max_size >= 1 /\ config.min_size > config.max_size
    /\ last.res = "min_size cannot exceed max_size"

\* construction with an accepted configuration
ConstructStep ==
    (phase = "unbuilt" /\ ~BadConfig /\ phase' # phase)
    => /\ phase' = "ready"
       /\ last'.op = "create" /\ last'.res = "ok"
       /\ last'.calls = config.min_size
       /\ pool'.in_use_ = 0
       /\ Len(pool'.available_) = created'
       /\ pool'.total_created_ = created'
       /\ created' <= config.min_size
       /\ NoDuplicates(pool'.available_)

\* C13: for every configuration with max_size > 0 and min_size <= max_size
\* construction succeeds whatever the creator returns: the creator is
\* invoked min_size times and the pool starts with in_use = 0 and
\* available = total_created = the number of invocations that succeeded,
\* which is at most min_size.
Thm_C13 == [][ConstructStep]_vars

\* a pool was built with two pre-warm invocations of which one failed
Wit_C13 ==
    /\ last.op = "create" /\ last.res = "ok" /\ last.calls = 2
    /\ pool = PoolData(<<1>>, 0, 1)

\* an acquire during which the creator failed
CreatorFailsStep ==
    (/\ last'.op = "acquire"
     /\ \/ (last'.calls >= 1 /\ created' = created)
        \/ last'.res = "creator_error")
    => /\ last'.res = "creator_error"
       /\ last'.calls = 1
       /\ created' = created
       /\ pool'.in_use_ = pool.in_use_
       /\ pool'.total_created_ = pool.total_created_
       /\ UNCHANGED <<handles, relcount>>

\* C14: when the creator fails during an acquire, the acquire returns the
\* creator's error after a single creator invocation, and in_use and
\* total_created are unchanged.
Thm_C14 == [][CreatorFailsStep]_vars

\* the validator rejected an idle resource and the creator then failed,
\* while another resource is checked out
Wit_C14 ==
    /\ last.op = "acquire" /\ last.res = "creator_error" /\ last.rejected
    /\ pool.in_use_ >= 1

\* the idle collection is a queue: it changes only by losing its front in an
\* acquire, by gaining a resource at its back in a release, and by
\* pre-warming; an acquire that reuses a resource hands out the front
FifoStep ==
    /\ (last'.op = "acquire" /\ last'.res # "timeout" /\ pool.available_ # <<>>)
       => /\ pool'.available_ = Tail(pool.available_)
          /\ (last'.res = "ok" /\ last'.calls = 0)
             => last'.rid = Head(pool.available_)
    /\ (last'.op = "acquire" /\ last'.res = "ok" /\ last'.calls = 0)
       => pool.available_ # <<>>
    /\ (last'.op = "release" /\ last'.res = "returned")
       => pool'.available_ = Append(pool.available_, last'.rid)
    /\ pool'.available_ # pool.available_
       => \/ last'.op = "create"
          \/ last'.op = "acquire" /\ last'.res # "timeout" /\ pool.available_ # <<>>
          \/ last'.op = "release" /\ last'.res = "returned"

\* C17: idle resources are reused in FIFO order: acquire takes the resource
\* at the front of the idle collection and release appends at the back, so
\* the resource that has been idle longest is handed out next.
Thm_C17 == [][FifoStep]_vars

\* resource 2 went idle before resource 1 and has been handed out first
Wit_C17 ==
    /\ last.op = "acquire" /\ last.res = "ok" /\ last.calls = 0
    /\ last.rid = 2 /\ pool.available_ = <<1>>

\* C18: moving a handle transfers the resource and the release obligation
\* and leaves the source empty: a handle that was moved from or released
\* (it has no releaser) reports has_value() = false and its destruction
\* invokes no release callback, and every checked-out resource is owed by
\* exactly one handle.
Cex_C18 ==
    /\ \A h \in Handles :
          (handles[h].live /\ ~handles[h].releaser)
          => (~has_value(handles[h]) /\ ~Armed(handles[h]))
    /\ \A r \in Resources :
          relcount[r] = 1
          => Cardinality({h \in Handles : Armed(handles[h])
                                          /\ handles[h].rid = r}) = 1

\* the errors a caller can see
CallerErrors ==
    {"creator_error"} \cup (IF kind = "Pool" THEN {"exhausted"} ELSE {"timeout"})

\* C19: validation and reset failures are never surfaced: every error that
\* acquire or with_resource returns is the creator's error, the exhaustion
\* error (single-threaded) or the timeout error (thread-safe), and a release
\* completes without reporting anything whatever validator and resetter
\* return: the with_resource around it still returns the body's result.
Thm_C19 ==
    /\ last.op = "acquire" => last.res \in {"ok"} \cup CallerErrors
    /\ last.op = "with_resource"
       => last.res \in {"ok", "raised"} \cup CallerErrors
    /\ (last.op = "with_resource" /\ last.calls = 1)
       => last.res \in {"ok", "raised"}
    /\ last.op = "release" => last.res \in {"returned", "reset_failed", "invalid"}

\* a with_resource has returned ok although its only resource was discarded
\* on release
Wit_C19 ==
    /\ last.op = "with_resource" /\ last.res = "ok"
    /\ pool.total_created_ = 1 /\ pool.available_ = <<>> /\ pool.in_use_ = 0

\* the mutex is held by one thread, which is inside acquire
MutexHeld ==
    /\ kind = "Pool" => mutex_ = NoThread
    /\ \A t \in Threads : (pc[t] = "acq_loop") <=> (mutex_ = t)

\* a step that reads or writes the pool or runs a callback is made by the
\* thread that holds the mutex, or takes the free mutex for its duration;
\* every return of acquire leaves the mutex free
MutexStep ==
    (kind = "ThreadSafePool" /\ phase = "ready")
    => /\ (pool' # pool \/ created' # created
             \/ last'.op \in {"acquire", "release"})
          => \E t \in Threads :
               /\ pc'[t] # pc[t]
               /\ \/ pc[t] = "acq_loop" /\ mutex_ = t
                  \/ pc[t] = "rel_lock" /\ mutex_ = NoThread
                  \/ /\ pc[t] \in {"acq_woken_t", "acq_woken_n"}
                     /\ mutex_ = NoThread /\ last'.res = "timeout"
                     /\ pool' = pool /\ created' = created
       /\ last'.op \in {"acquire", "release"} => mutex_' = NoThread
       /\ \A t \in Threads :
            (pc[t] # "acq_loop" /\ pc'[t] = "acq_loop") => mutex_ = NoThread

\* C20: in the thread-safe pool every access to the idle collection, in_use
\* and total_created and every callback invocation after construction
\* happens under the pool's mutex, which one thread holds at a time and
\* which acquire releases on every exit path (success, timeout, creation
\* error), so it is never held while a caller uses a handle.
Thm_C20 == []MutexHeld /\ [][MutexStep]_vars

\* one thread is inside acquire with the mutex while the other one has
\* called the releaser and waits for it
Wit_C20 ==
    /\ mutex_ = "t1" /\ pc["t1"] = "acq_loop"
    /\ pc["t2"] = "rel_lock"

\* the resources the pool holds idle or a handle has checked out (one on its
\* way through do_release counts as checked out until it is idle)
LiveResources ==
    Range(pool.available_) \cup {handles[h].rid : h \in Outstanding}

\* an acquire whose validator rejected the popped resource: the idle
\* collection loses exactly its front, which is gone for good, and the
\* creator is invoked once
RejectStep ==
    (last'.op = "acquire" /\ last'.rejected)
    => /\ config.validate_on_acquire /\ callbacks.validator
       /\ pool.available_ # <<>>
       /\ pool'.available_ = Tail(pool.available_)
       /\ Head(pool.available_) \notin LiveResources'
       /\ last'.calls = 1
       /\ IF last'.res = "ok"
          THEN /\ last'.rid = created + 1 /\ created' = created + 1
               /\ last'.rid \notin LiveResources
               /\ last'.rid \in LiveResources'
               /\ pool'.in_use_ = pool.in_use_ + 1
               /\ pool'.total_created_ = pool.total_created_ + 1
          ELSE /\ last'.res = "creator_error"
               /\ pool'.in_use_ = pool.in_use_
               /\ pool'.total_created_ = pool.total_created_
               /\ UNCHANGED <<created, handles>>

\* a resource that the pool or a handle holds after a step was held before
\* it or has just been created: a discarded resource does not come back
NoReturnStep ==
    LiveResources' \subseteq
        LiveResources \cup (IF created' > created THEN (created + 1)..created' ELSE {})

\* C23: with validate_on_acquire on, an acquire whose validator rejects the
\* resource popped from the front of the idle collection discards it (it is
\* never idle or handed out again) and makes exactly one creation attempt,
\* leaving the other idle resources alone and with no exhaustion check: on
\* success the caller gets the new resource (available - 1, in_use + 1,
\* total_created + 1), on failure the creator's error with available - 1.
Thm_C23 == [][RejectStep /\ NoReturnStep]_vars

\* the front idle resource was rejected and replaced by a new one while
\* another resource stayed idle
Wit_C23 ==
    /\ last.op = "acquire" /\ last.rejected /\ last.res = "ok"
    /\ Len(pool.available_) >= 1

\* the pool was built by create / create_thread_safe (make_pool,
\* make_thread_safe_pool): the caller supplied neither validator nor resetter
NoCallbacks == ~callbacks.validator /\ ~callbacks.resetter

\* such a pool rejects nothing on acquire and returns every released
\* resource to the idle collection
NoDiscardStep ==
    NoCallbacks
    => /\ last'.op = "acquire" => ~last'.rejected
       /\ last'.op = "release"
          => /\ last'.res = "returned"
             /\ pool'.available_ = Append(pool.available_, last'.rid)

\* C24: a pool built by the entry points without validator and resetter
\* behaves as one built with an always-true validator and an
\* always-succeeding resetter: no resource is discarded, every release
\* returns its resource to the idle collection, available + in_use equals
\* total_created, and so total_created never exceeds max_size.
Thm_C24 ==
    /\ [](NoCallbacks /\ phase = "ready"
          => /\ Len(pool.available_) + pool.in_use_ = pool.total_created_
             /\ pool.total_created_ <= config.max_size)
    /\ [][NoDiscardStep]_vars

\* such a pool, with both validate flags on, has created max_size resources
\* and a release has just returned one of them
Wit_C24 ==
    /\ NoCallbacks /\ config.validate_on_acquire /\ config.validate_on_release
    /\ last.op = "release" /\ last.res = "returned"
    /\ pool.total_created_ = config.max_size /\ config.max_size >= 2
    /\ pool.in_use_ >= 1

\* an acquire that returns the timeout error does so on an exhausted pool
TimeoutOnlyExhaustedStep ==
    (kind = "ThreadSafePool" /\ last'.op = "acquire" /\ last'.res = "timeout")
    => MustWait(pool, config) /\ MustWait(pool', config)

\* C25: an acquire of the thread-safe pool returns the timeout error only
\* if, when it decides to return it with the mutex held, the idle collection
\* is empty and in_use >= max_size: no acquire fails with a timeout while a
\* resource is idle or capacity is free.
Cex_C25 == [][TimeoutOnlyExhaustedStep]_vars

\* no thread is inside do_release, in the body of with_resource or leaving
\* with_resource while it holds the mutex; the temporaries of acquire and
\* the moved-from Result of with_resource release nothing; and the thread
\* that holds the mutex inside acquire can go on
NoSelfLock ==
    (kind = "ThreadSafePool" /\ phase = "ready")
    => /\ \A t \in Threads :
            /\ pc[t] \in {"rel_lock", "rel_notify"} => mutex_ # t
            /\ bracket[t].st \in {"body", "release", "exit"} => mutex_ # t
            /\ ~Armed(bracket[t].husk)
            /\ pc[t] = "acq_loop" => (mutex_ = t /\ ENABLED TS_AcquireLoop(t))
       /\ \A r \in Range(pool.available_) \cup {created + 1} :
            ~HuskReleases(r)

\* C27: the thread-safe pool never locks its non-recursive mutex twice in
\* one thread: no thread invokes do_release while it holds the mutex, the
\* temporary handles moved from while acquire builds its Result under the
\* lock are inert when destroyed, and with_resource runs the body and the
\* release only after acquire has returned and released the mutex.
Thm_C27 == NoSelfLock

\* one thread is in the body of with_resource, its moved-from Result still
\* alive, while the other holds the mutex inside acquire
Wit_C27 ==
    /\ kind = "ThreadSafePool"
    /\ bracket["t1"].st = "body" /\ bracket["t1"].husk.live
    /\ pc["t2"] = "acq_loop" /\ mutex_ = "t2"

\* the releases still owed for resource r: the handles that hold it with a
\* releaser and have not called it
Pending(r) ==
    Cardinality({h \in Handles : /\ Armed(handles[h]) /\ handles[h].rid = r
                                 /\ ~\E t \in Threads : rel[t].h = h})

\* what handle dst is after the move assignment from a handle that was b
TookOver(dst, b) ==
    /\ handles'[dst].live
    /\ handles'[dst].engaged = b.engaged
    /\ handles'[dst].rid = b.rid
    /\ handles'[dst].releaser = b.releaser

\* move assignment of handle src into handle dst, which holds a checked-out
\* resource: the releaser of dst is called once for that resource (on the
\* single-threaded pool it has run when the assignment returns, on the
\* thread-safe pool the thread goes on into do_release), then dst takes
\* over what src held and src is left with no releaser; assigning a handle
\* to itself changes nothing
AssignStep ==
    \A t \in Threads, dst, src \in Handles :
        /\ (dst # src /\ Armed(handles[dst]) /\ MoveAssign(t, dst, src))
           => /\ relcount'[handles[dst].rid] = relcount[handles[dst].rid] - 1
              /\ \A r \in Resources :
                   Pending(r)' = IF r = handles[dst].rid THEN 0 ELSE Pending(r)
              /\ IF kind = "Pool"
                 THEN /\ last'.op = "release" /\ last'.rid = handles[dst].rid
                      /\ pool'.in_use_ = pool.in_use_ - 1
                      /\ TookOver(dst, handles[src])
                      /\ handles'[src].live /\ ~Armed(handles'[src])
                 ELSE /\ pc'[t] = "rel_lock"
                      /\ rel'[t] = [h |-> dst, op |-> "assign", src |-> src]
                      /\ UNCHANGED <<pool, handles>>
        /\ (rel[t].op = "assign" /\ rel[t].h = dst /\ rel[t].src = src
            /\ pc[t] = "rel_notify" /\ pc'[t] = "idle")
           => /\ TookOver(dst, handles[src])
              /\ handles'[src].live /\ ~Armed(handles'[src])
              /\ \A r \in Resources : Pending(r)' = Pending(r)
              /\ UNCHANGED <<pool, relcount>>
        /\ (dst = src /\ MoveAssign(t, dst, src))
           => UNCHANGED <<pool, handles, relcount, pc, rel>>

\* C28: move-assigning handle B into handle A, which still holds a
\* checked-out resource, first releases A's resource exactly once (in_use - 1)
\* and then makes A own B's resource and release obligation: afterwards one
\* release is pending for B's resource and none for A's; self-assignment
\* changes nothing.
Thm_C28 ==
    /\ [](\A r \in Resources : relcount[r] = Pending(r) /\ Pending(r) <= 1)
    /\ [][AssignStep]_vars

\* handle dst held resource dst, was assigned from the handle holding
\* resource src and now owns that resource, while resource dst has just
\* been returned to the pool
Wit_C28 ==
    \E dst, src \in Handles :
        /\ dst # src
        /\ last.op = "release" /\ last.res = "returned" /\ last.rid = dst
        /\ Armed(handles[dst]) /\ handles[dst].rid = src
        /\ handles[src].live /\ ~handles[src].releaser
        /\ Pending(src) = 1 /\ Pending(dst) = 0

\* a call of stats() changes nothing, returns the pool's counters as they
\* are, and on the thread-safe pool runs while no thread is inside the
\* critical section of acquire or do_release
StatsStep ==
    last'.op = "stats"
    => /\ UNCHANGED <<phase, kind, config, callbacks, pool, mutex_, pc, deadline,
                      rel, hist, handles, now, created, relcount, bracket>>
       /\ last'.snap = [available |-> Len(pool.available_),
                        in_use |-> pool.in_use_,
                        total_created |-> pool.total_created_,
                        max_size |-> config.max_size]
       /\ kind = "ThreadSafePool"
          => (mutex_ = NoThread /\ \A t \in Threads : pc[t] # "acq_loop")
       /\ last'.snap.available + last'.snap.in_use <= last'.snap.max_size
       /\ last'.snap.available + last'.snap.in_use <= last'.snap.total_created

\* C21: stats() of the thread-safe pool returns a consistent snapshot and
\* mutates nothing: (available, in_use, total_created, max_size) is the
\* pool's state at a moment when no acquire or release is inside its
\* critical section, so under any interleaving every snapshot has
\* available + in_use <= max_size and available + in_use <= total_created.
Thm_C21 == [][StatsStep]_vars

\* a snapshot of the thread-safe pool with one resource idle and one
\* checked out, taken while the other thread has called the releaser
Wit_C21 ==
    /\ kind = "ThreadSafePool" /\ last.op = "stats"
    /\ last.snap.available = 1 /\ last.snap.in_use = 1
    /\ \E t \in Threads : pc[t] = "rel_lock"

\* a thread inside do_release is taking the mutex or about to notify: it
\* is never in the wait loop
ReleaseNeverWaits ==
    \A t \in Threads :
        rel[t].op # "none" => pc[t] \in {"rel_lock", "rel_notify"}

\* the threads a step takes out of cv_.wait_until
Woken == {w \in Threads : pc[w] = "acq_wait" /\ pc'[w] # "acq_wait"}

\* do_release runs the release logic with the mutex, which it takes free
\* and leaves free, wakes nobody while it does so, and afterwards wakes
\* one waiter if there is one
ReleaseOrderStep ==
    \A t \in Threads :
        /\ (pc[t] = "rel_lock" /\ pc'[t] # "rel_lock")
           => /\ pc'[t] = "rel_notify" /\ last'.op = "release"
              /\ mutex_ = NoThread /\ mutex_' = NoThread
              /\ Woken = {}
        /\ (pc[t] = "rel_notify" /\ pc'[t] # "rel_notify")
           => /\ pc'[t] = "idle" /\ mutex_ # t
              /\ UNCHANGED <<pool, mutex_>>
              /\ Cardinality(Woken) = IF Waiters = {} THEN 0 ELSE 1

\* C22: release on the thread-safe pool never waits on the condition
\* variable and always completes: it takes the mutex, runs the release
\* logic, gives the mutex up and only then signals one waiter; with
\* callbacks that terminate and fair lock acquisition every release that
\* has started finishes, whether or not an acquire is blocked.
Thm_C22 ==
    /\ []ReleaseNeverWaits
    /\ [][ReleaseOrderStep]_vars
    /\ \A t \in Callers : (pc[t] = "rel_lock") ~> (pc[t] = "idle")

\* one thread has called the releaser and waits for the mutex while the
\* other is blocked in the wait loop of acquire
Wit_C22 ==
    /\ pc["t1"] = "rel_lock" /\ pc["t2"] = "acq_wait"

\* thread w is blocked in cv_.wait_until before its deadline although the
\* pool has an idle resource or room to create one, and no other thread is
\* inside acquire or do_release: nobody is about to notify it
Stranded(w) ==
    /\ pc[w] = "acq_wait" /\ now < deadline[w]
    /\ ~MustWait(pool, config)
    /\ mutex_ = NoThread
    /\ \A u \in Threads \ {w} : pc[u] = "idle"

\* an acquire that had been in the wait loop has returned a handle or the
\* creator's error
WaiterLeft ==
    last.op = "acquire" /\ last.hist # "none" /\ last.res # "timeout"

\* C26: no waiter is stranded on the thread-safe pool: whenever a thread is
\* blocked in the wait loop of acquire while the pool has an idle resource
\* or in_use < max_size, a blocked thread is eventually woken and leaves
\* the wait loop before its deadline, under fairness; here for the case
\* that no other thread is inside acquire or do_release at that moment.
Cex_C26 == \A w \in WaitThreads : Stranded(w) ~> WaiterLeft

====
